---- MODULE Spec2Model ----
(***************************************************************************)
(* A model of the NUV-agent runtime (src/nuvion_app/inference/pipeline.py):*)
(* the inference dispatcher (NuvionEventState), the clip trigger, the      *)
(* outbound STOMP queue with the signaling supervisor, the RTP command     *)
(* handler and the HTTP client with its single re-auth retry.              *)
(*                                                                         *)
(* Threads of the program and the actions that model them:                 *)
(*   media thread (frame tap)  : MaybeEnqueueFrame                         *)
(*   inference worker thread   : Worker*                                   *)
(*   clip worker thread        : ClipWorker*                               *)
(*   signaling event loop      : Sig*, RunEnqueueCallback, Sender*         *)
(*   a caller of api_request   : Api*                                      *)
(*   clip assembly and upload  : Muxer*, BuildClip*, UploadFileToUrl       *)
(*   the end of the process    : Shutdown                                  *)
(*   main loop (bus, run)      : BusCall, RunReturns                       *)
(*   nuv-agent setup (cli.py)  : CliMain, SetupConfig                      *)
(* Wall-clock time is the integer variable now, advanced by Tick.          *)
(***************************************************************************)
EXTENDS Integers, Sequences, FiniteSets, TLC

(* ---------------- bounds and scaled-down configuration ---------------- *)

\* How far the clock runs after start-up.
Horizon == 4
\* How many _enqueue callbacks may wait on the signaling loop at once.
MaxCallbacks == 1
\* Configuration values (environment variables), scaled down to seconds
\* that the clock can cross inside Horizon.
ANOMALY_MIN_INTERVAL_SEC == 2
CLIP_COOLDOWN_SEC == 2
ZERO_SHOT_SAMPLE_SEC == 1
PRODUCTION_DEDUP_SEC == 1
OUTBOUND_QUEUE_MAX == 2
\* How many messages the producers of the outbound queue hand over while
\* their order on the wire is followed, and how many lines an SDP text has.
MaxMessages == 3
MaxSdpLines == 4

\* queue.Queue(maxsize=1): the frame channel.
ZERO_SHOT_QUEUE_MAXSIZE == 1

None == "None"

\* time.time() at start-up is far beyond every configured interval, while the
\* timestamps of NuvionEventState start at 0.0.
StartTime ==
    ANOMALY_MIN_INTERVAL_SEC + CLIP_COOLDOWN_SEC + ZERO_SHOT_SAMPLE_SEC
        + PRODUCTION_DEDUP_SEC
EndTime == StartTime + Horizon

VARIABLES
    now,                    \* time.time()
    backend,                \* NuvionEventState.backend after __init__
    production_labels,      \* PRODUCTION_LABELS (configuration)
    zero_shot_queue,        \* the frame channel
    zero_shot_last_sample,
    worker,                 \* the inference worker thread: pc and locals
    classifying,            \* classifier calls in progress
    last_status,
    last_sent_status,
    last_sent_at,
    last_production_at,
    clip_in_progress,
    clip_last_started,
    clip_workers,           \* the clip worker threads alive, oldest first
    emitted,                \* history: alerts accepted by send_status
    clip_starts,            \* history: timestamps of the gate passes
    signaling_loop,         \* module global: None or "loop"
    outbound_queue,         \* module global: None or the queue's items
    loop_callbacks,         \* _enqueue callbacks scheduled on the loop
    enq_outcomes,           \* history: <<returned, fate>> of enqueue calls
    sig_pc,                 \* signaling_client_main: where the coroutine is
    websocket,              \* module global: None or the open socket
    sender_task,            \* the local sender_task: None, "running", "cancelled"
    sender_msg,             \* outbound_sender: the item it is sending, if any
    auth_token,             \* module global: None or a bearer token
    rtp_remote_ip,          \* RTP_REMOTE_IP_ENV (configuration), "" when unset
    pipeline,               \* rtp_sink host and port, rtp_pay pt
    last_broadcast,         \* the last /app/broadcast/start written, if any
    cmd_log,                \* history: the kinds of command bodies handled
    http,                   \* a caller inside api_request: pc, locals, counts
    wire_log,               \* history: numbered messages called, written, lost
    session_log,            \* history: frames read and written in the session
    handler_log,            \* history: inbound messages and what became of them
    sdp_text,               \* the text handed to parse_rtp_sdp, line by line
    sdp_parsed,             \* what parse_rtp_sdp returned for it, if called
    clip_files,             \* the assembled clips in CLIP_CLIPS_DIR
    segments,               \* CLIP_SEGMENTS_DIR: the mtime of each segment file
    clip_job,               \* a call of _build_clip_from_segments: pc, locals
    upload_url,             \* the netloc of the URL handed to upload_file_to_url
    put_log,                \* history: the PUT requests upload_file_to_url made
    process,                \* the agent process: "running" or "exited"
    setup,                  \* a run of "nuv-agent setup": its arguments and path
    app                     \* the running flag, the pipeline state, the main loop

vars ==
    << now, backend, production_labels, zero_shot_queue, zero_shot_last_sample, worker,
       classifying, last_status, last_sent_status, last_sent_at,
       last_production_at, clip_in_progress, clip_last_started, clip_workers,
       emitted, clip_starts, signaling_loop, outbound_queue, loop_callbacks,
       enq_outcomes, sig_pc, websocket, sender_task, sender_msg, auth_token,
       rtp_remote_ip, pipeline, last_broadcast, cmd_log, http, wire_log,
       session_log, handler_log, sdp_text, sdp_parsed, clip_files, segments,
       clip_job, upload_url, put_log, process, setup, app >>

dispatchVars ==
    << zero_shot_queue, zero_shot_last_sample, worker, classifying,
       last_status, last_sent_status, last_sent_at, last_production_at,
       clip_in_progress, clip_last_started, clip_workers, emitted,
       clip_starts, clip_files >>

\* What stands beside the threads of the agent: the segment directory with a
\* call of _build_clip_from_segments, a call of upload_file_to_url, the life
\* of the process and a run of the setup command.
asideVars == << segments, clip_job, upload_url, put_log, process, setup, app >>

\* What no thread of the agent writes: the configuration, and the input
\* and result of a direct call of parse_rtp_sdp.
configVars ==
    << backend, production_labels, rtp_remote_ip, sdp_text, sdp_parsed,
       asideVars >>

outboundVars == << signaling_loop, outbound_queue, loop_callbacks, enq_outcomes >>

\* The signaling session and the token.
sessionVars ==
    << sig_pc, websocket, sender_task, sender_msg, auth_token, wire_log,
       session_log >>

\* The RTP elements with the command history, and (never touched by the
\* threads above) the api_request call in progress.
rtpVars == << pipeline, last_broadcast, cmd_log, http, handler_log >>

(* ------------------------------ clock ---------------------------------- *)

\* time.time() moves on between any two steps of any thread.
Tick ==
    /\ now < EndTime
    /\ now' = now + 1
    /\ UNCHANGED << configVars, dispatchVars, outboundVars, sessionVars,
                    rtpVars >>

(* ------------------------- outbound queueing --------------------------- *)

\* An outbound queue created without its maxsize.
OutboundFull_Unbounded(q) == FALSE

\* asyncio.Queue(maxsize=OUTBOUND_QUEUE_MAX).full(): a maxsize <= 0 is
\* an unbounded queue.
OutboundFull(q) == OUTBOUND_QUEUE_MAX > 0 /\ Len(q) >= OUTBOUND_QUEUE_MAX

\* The value enqueue_stomp_message returns: False only by the early return.
enqueue_returns == outbound_queue # None /\ signaling_loop # None

\* enqueue_stomp_message(destination, payload): schedules _enqueue on the
\* signaling loop with call_soon_threadsafe, or returns early.
enqueue_stomp_message(msg) ==
    /\ loop_callbacks' =
          IF enqueue_returns
          THEN Append(loop_callbacks, [msg |-> msg, returned |-> enqueue_returns])
          ELSE loop_callbacks
    /\ enq_outcomes' =
          IF enqueue_returns
          THEN enq_outcomes
          ELSE enq_outcomes \cup { << enqueue_returns, "not_scheduled" >> }
    /\ UNCHANGED << signaling_loop, outbound_queue >>

\* The loop can take one more callback (the model's cap on the loop's
\* ready list; the program has none).
LoopHasRoom == enqueue_returns => Len(loop_callbacks) < MaxCallbacks

\* The closure _enqueue, run by the signaling loop: put_nowait, and a
\* QueueFull is caught and logged.
RunEnqueueCallback ==
    /\ loop_callbacks # << >>
    /\ LET cb == Head(loop_callbacks) IN
         IF OutboundFull(outbound_queue)
         THEN /\ outbound_queue' = outbound_queue
              /\ enq_outcomes' = enq_outcomes \cup { << cb.returned, "dropped" >> }
         ELSE /\ outbound_queue' = Append(outbound_queue, cb.msg)
              /\ enq_outcomes' = enq_outcomes \cup { << cb.returned, "queued" >> }
    /\ loop_callbacks' = Tail(loop_callbacks)
    /\ UNCHANGED << now, configVars, dispatchVars, signaling_loop, sessionVars,
                    rtpVars >>

\* signaling_client_main, lines 482-485: the globals are set once, when the
\* signaling thread starts.
SigInit ==
    /\ sig_pc = "start"
    /\ signaling_loop' = IF signaling_loop = None THEN "loop" ELSE signaling_loop
    /\ outbound_queue' = IF outbound_queue = None THEN << >> ELSE outbound_queue
    /\ sig_pc' = "login"
    /\ UNCHANGED << now, configVars, dispatchVars, loop_callbacks, enq_outcomes,
                    websocket, sender_task, sender_msg, auth_token, wire_log,
                    session_log, rtpVars >>

AnomalyMsg(status, clip_object, clip_status) ==
    [ destination |-> "/app/device/anomaly", anomalyStatus |-> status,
      clipObject |-> clip_object, clipStatus |-> clip_status, seq |-> 0 ]

ProductionMsg ==
    [ destination |-> "/app/device/production", anomalyStatus |-> None,
      clipObject |-> None, clipStatus |-> None, seq |-> 0 ]

(* ----------------------------- frame tap -------------------------------- *)

\* A frame channel created without its maxsize.
FrameQueueFull_Unbounded(q) == FALSE

\* queue.Queue(maxsize).full()
FrameQueueFull(q) ==
    ZERO_SHOT_QUEUE_MAXSIZE > 0 /\ Len(q) >= ZERO_SHOT_QUEUE_MAXSIZE

\* A frame tap that does not look at the backend.
BackendInert_Never(b) == FALSE

\* maybe_enqueue_frame, line 783: if self.backend == "none": return
BackendInert(b) == b = "none"

\* A frame tap that takes every frame as due.
SampleTooSoon_Never(t) == FALSE

\* maybe_enqueue_frame, line 786: the offer comes before the sampling
\* interval has passed since the last sample.
SampleTooSoon(t) == t - zero_shot_last_sample < ZERO_SHOT_SAMPLE_SEC

\* maybe_enqueue_frame(frame_rgb), called by on_new_sample for every frame.
MaybeEnqueueFrame ==
    /\ app.state = "PLAYING"
    /\ IF BackendInert(backend)
       THEN UNCHANGED << zero_shot_last_sample, zero_shot_queue >>
       ELSE IF SampleTooSoon(now)
       THEN UNCHANGED << zero_shot_last_sample, zero_shot_queue >>
       ELSE /\ zero_shot_last_sample' = now
            /\ zero_shot_queue' =
                  IF FrameQueueFull(zero_shot_queue)
                  THEN zero_shot_queue
                  ELSE Append(zero_shot_queue, "frame")
    /\ UNCHANGED << now, configVars, worker, classifying, last_status,
                    last_sent_status, last_sent_at, last_production_at,
                    clip_in_progress, clip_last_started, clip_workers, emitted,
                    clip_starts, clip_files, outboundVars, sessionVars, rtpVars >>

(* -------------------------- inference worker --------------------------- *)

WorkerIdle ==
    [ pc |-> "get", status |-> None, prod |-> FALSE, now |-> 0,
      changed |-> FALSE, clip_object |-> None ]

\* What a classifier call can yield: no result (classify returned None,
\* predict raised or returned None, or neither branch of lines 807 / 826
\* applies because the backend is none), or a status together with the outcome
\* of the production test of lines 819 / 846 (PRODUCTION_LABELS non-empty,
\* the label in it and the score at or above the threshold).
ClassifierResults ==
    { [ status |-> None, prod |-> FALSE ] }
        \cup [ status : IF backend = "none" THEN { } ELSE { "DEFECT", "NORMAL" },
               prod : IF production_labels = { } THEN { FALSE } ELSE BOOLEAN ]

\* Where the worker goes once send_status has returned: the production test
\* of lines 819-823 / 846-850, or the head of the loop.
AfterSendStatus(w) ==
    IF w.prod THEN [ WorkerIdle EXCEPT !.pc = "production" ] ELSE WorkerIdle

\* _zsad_worker: frame = self.zero_shot_queue.get(timeout=0.5), then the
\* classifier is called with the frame.
WorkerGet ==
    /\ worker.pc = "get"
    /\ zero_shot_queue # << >>
    /\ zero_shot_queue' = Tail(zero_shot_queue)
    /\ worker' = [ worker EXCEPT !.pc = "classify" ]
    /\ classifying' = classifying + 1
    /\ UNCHANGED << now, configVars, zero_shot_last_sample, last_status,
                    last_sent_status, last_sent_at, last_production_at,
                    clip_in_progress, clip_last_started, clip_workers, emitted,
                    clip_starts, clip_files, outboundVars, sessionVars, rtpVars >>

\* A worker that takes every return of the classifier for a result.
NoResult_Never(r) == FALSE

\* lines 808-809 (if result:) and 828-834 (except ...: continue;
\* if result is None: continue): the call gave nothing to dispatch.
NoResult(r) == r.status = None

\* The classifier call returns (zero_shot.is_anomaly / triton_client.predict).
WorkerClassified ==
    /\ worker.pc = "classify"
    /\ \E r \in ClassifierResults :
          worker' =
              IF NoResult(r)
              THEN WorkerIdle
              ELSE [ WorkerIdle EXCEPT !.pc = "send_status",
                                       !.status = r.status, !.prod = r.prod ]
    /\ classifying' = classifying - 1
    /\ UNCHANGED << now, configVars, zero_shot_queue, zero_shot_last_sample,
                    last_status, last_sent_status, last_sent_at,
                    last_production_at, clip_in_progress, clip_last_started,
                    clip_workers, emitted, clip_starts, clip_files, outboundVars, sessionVars, rtpVars >>

\* send_status, lines 607: status_changed
StatusChanged(status) ==
    last_sent_status = None \/ status # last_sent_status

\* send_status without the start-up suppression of lines 610-611.
ShouldEmit_NoSuppression(status, t) ==
    IF StatusChanged(status) THEN TRUE
    ELSE status = "DEFECT" /\ t - last_sent_at >= ANOMALY_MIN_INTERVAL_SEC

\* send_status that holds a change of status back until the interval is over.
ShouldEmit_ChangeWaits(status, t) ==
    IF last_sent_status = None /\ status = "NORMAL" THEN FALSE
    ELSE t - last_sent_at >= ANOMALY_MIN_INTERVAL_SEC
            /\ (StatusChanged(status) \/ status = "DEFECT")

\* send_status with the repeat branch of line 615 not looking at the clock.
ShouldEmit_NoInterval(status, t) ==
    IF last_sent_status = None /\ status = "NORMAL" THEN FALSE
    ELSE IF StatusChanged(status) THEN TRUE
    ELSE status = "DEFECT"

\* send_status, lines 610-618: TRUE when the call goes on to build and
\* enqueue the alert, FALSE when it returns early.
ShouldEmit(status, t) ==
    IF last_sent_status = None /\ status = "NORMAL" THEN FALSE
    ELSE IF StatusChanged(status) THEN TRUE
    ELSE status = "DEFECT" /\ t - last_sent_at >= ANOMALY_MIN_INTERVAL_SEC

\* The alert history: what send_status has handed to the outbound side with
\* enqueue_stomp_message returning True.
RecordEmit(status, t) ==
    [ first |-> IF emitted.first = None THEN status ELSE emitted.first,
      defect_seen |-> emitted.defect_seen \/ status = "DEFECT",
      prev |-> emitted.last,
      last |-> [ status |-> status, at |-> t ] ]

\* A send_status that marks every alert as uploading.
ClipStatusFor_Always(clip_object) == "UPLOADING"

\* send_status, lines 622-623: clip_status is "UPLOADING" when
\* start_clip_upload handed back an object name, and stays None otherwise.
ClipStatusFor(clip_object) ==
    IF clip_object # None THEN "UPLOADING" ELSE None

\* send_status, lines 625-640: build the payload, enqueue it and, if the
\* enqueue call returned True, record the status as sent.
SendStatusEnqueue(w, clip_object) ==
    /\ LoopHasRoom
    /\ enqueue_stomp_message(
          AnomalyMsg(w.status, clip_object, ClipStatusFor(clip_object)))
    /\ IF enqueue_returns
       THEN /\ last_sent_status' = w.status
            /\ last_sent_at' = w.now
            /\ emitted' = RecordEmit(w.status, w.now)
       ELSE UNCHANGED << last_sent_status, last_sent_at, emitted >>

\* send_status up to its first blocking call: the debounce decision and,
\* unless the clip trigger has to run first, the enqueue.
WorkerSendStatus ==
    /\ worker.pc = "send_status"
    /\ last_status' = worker.status
    /\ LET w == [ worker EXCEPT !.now = now,
                                !.changed = StatusChanged(worker.status) ]
       IN
         IF ~ShouldEmit(w.status, w.now)
         THEN /\ worker' = AfterSendStatus(w)
              /\ UNCHANGED << last_sent_status, last_sent_at, emitted,
                              outboundVars, sessionVars, rtpVars >>
         ELSE IF w.status = "DEFECT" /\ w.changed
         THEN /\ worker' = [ w EXCEPT !.pc = "start_clip_upload" ]
              /\ UNCHANGED << last_sent_status, last_sent_at, emitted,
                              outboundVars, sessionVars, rtpVars >>
         ELSE /\ SendStatusEnqueue(w, None)
              /\ worker' = AfterSendStatus(w)
    /\ UNCHANGED << now, configVars, zero_shot_queue, zero_shot_last_sample,
                    classifying, last_production_at, clip_in_progress,
                    clip_last_started, clip_workers, clip_starts, clip_files, sessionVars,
                    rtpVars >>

(* ----------------------------- clip trigger ----------------------------- *)

\* NUVION_CLIP_ENABLED, default "true".
CLIP_ENABLED == TRUE

\* The gate without the test of clip_in_progress (lines 651-652).
ClipGateOpen_NoInProgress(t) ==
    ~(t - clip_last_started < CLIP_COOLDOWN_SEC)

\* The gate without the cooldown test (lines 653-654).
ClipGateOpen_NoCooldown(t) ==
    ~clip_in_progress

\* start_clip_upload, lines 651-654, under clip_lock: TRUE when the call
\* goes on to claim the clip slot.
ClipGateOpen(t) ==
    /\ ~clip_in_progress
    /\ ~(t - clip_last_started < CLIP_COOLDOWN_SEC)

\* What request_upload_url can hand back: nothing (api_request returned
\* None or no "data"), a dict that lacks objectName or uploadUrl, or both.
UploadUrlResults == { "none", "incomplete", "ok" }

\* A start_clip_upload that takes whatever came back for usable.
MetaUsable_Always(meta) == TRUE

\* start_clip_upload, lines 659 and 666: meta is there and holds both
\* objectName and uploadUrl.
MetaUsable(meta) == meta = "ok"

ClipWorkerStart(object_name, detected_at) ==
    [ pc |-> "build", object_name |-> object_name, detected_at |-> detected_at,
      clip_path |-> None, report |-> None ]

\* start_clip_upload, lines 647-656, called by send_status for a DEFECT that
\* is a status change; on a None return send_status goes on to enqueue.
WorkerStartClipUpload ==
    /\ worker.pc = "start_clip_upload"
    /\ IF CLIP_ENABLED /\ ClipGateOpen(now)
       THEN /\ clip_in_progress' = TRUE
            /\ clip_last_started' = now
            /\ clip_starts' = Append(clip_starts, now)
            /\ worker' = [ worker EXCEPT !.pc = "request_upload_url" ]
            /\ UNCHANGED << last_sent_status, last_sent_at, emitted,
                            outboundVars, sessionVars, rtpVars >>
       ELSE /\ SendStatusEnqueue(worker, None)
            /\ worker' = AfterSendStatus(worker)
            /\ UNCHANGED << clip_in_progress, clip_last_started, clip_starts >>
    /\ UNCHANGED << now, configVars, zero_shot_queue, zero_shot_last_sample,
                    classifying, last_status, last_production_at,
                    clip_workers, clip_files, sessionVars, rtpVars >>

\* start_clip_upload, lines 659-676, once request_upload_url has handed back
\* meta, and the alert send_status then builds with the value returned.
StartClipUploadReturns(meta) ==
    IF MetaUsable(meta)
    THEN /\ clip_workers' =
               Append(clip_workers, ClipWorkerStart("obj", clip_last_started))
         /\ clip_in_progress' = clip_in_progress
         /\ SendStatusEnqueue(worker, "obj")
    ELSE /\ clip_workers' = clip_workers
         /\ clip_in_progress' = FALSE
         /\ SendStatusEnqueue(worker, None)

\* start_clip_upload, lines 658-676: request_upload_url returns; the slot is
\* released or the clip worker thread is started; then send_status enqueues.
WorkerRequestUploadUrl ==
    /\ worker.pc = "request_upload_url"
    /\ \E meta \in UploadUrlResults : StartClipUploadReturns(meta)
    /\ worker' = AfterSendStatus(worker)
    /\ UNCHANGED << now, configVars, zero_shot_queue, zero_shot_last_sample,
                    classifying, last_status, last_production_at,
                    clip_last_started, clip_starts, clip_files, sessionVars, rtpVars >>

\* _zsad_worker, lines 819-823 / 846-850: the production event.
WorkerProduction ==
    /\ worker.pc = "production"
    /\ IF now - last_production_at >= PRODUCTION_DEDUP_SEC
       THEN /\ LoopHasRoom
            /\ last_production_at' = now
            /\ enqueue_stomp_message(ProductionMsg)
       ELSE UNCHANGED << last_production_at, outboundVars >>
    /\ worker' = WorkerIdle
    /\ UNCHANGED << now, configVars, zero_shot_queue, zero_shot_last_sample,
                    classifying, last_status, last_sent_status, last_sent_at,
                    clip_in_progress, clip_last_started, clip_workers, emitted,
                    clip_starts, clip_files, sessionVars, rtpVars >>

\* The list without its i-th element.
RemoveAt(seq, i) ==
    [ j \in 1 .. (Len(seq) - 1) |-> IF j < i THEN seq[j] ELSE seq[j + 1] ]

ClipWorkerUnchanged ==
    UNCHANGED << now, configVars, zero_shot_queue, zero_shot_last_sample, worker,
                 classifying, last_status, last_sent_status, last_sent_at,
                 last_production_at, clip_last_started, emitted, clip_starts,
                 outboundVars, sessionVars, rtpVars >>

\* _capture_and_upload_clip, lines 681-684: _build_clip_from_segments hands
\* back the path of the clip it assembled, or None (then FAILED is reported),
\* or raises.
ClipWorkerBuild ==
    /\ \E i \in 1 .. Len(clip_workers) :
          /\ clip_workers[i].pc = "build"
          /\ \E built \in { "clip", "none", "raise" } :
                /\ clip_workers' =
                      [ clip_workers EXCEPT
                          ![i] = IF built = "clip"
                                 THEN [ @ EXCEPT !.pc = "upload",
                                                 !.clip_path =
                                                     clip_workers[i].object_name ]
                                 ELSE IF built = "none"
                                 THEN [ @ EXCEPT !.pc = "finally",
                                                 !.report = "FAILED" ]
                                 ELSE [ @ EXCEPT !.pc = "finally" ] ]
                /\ clip_files' =
                      IF built = "clip"
                      THEN clip_files \cup { clip_workers[i].object_name }
                      ELSE clip_files
    /\ clip_in_progress' = clip_in_progress
    /\ ClipWorkerUnchanged

\* lines 686-687: upload_file_to_url returns ok or not, and the status is
\* reported.
ClipWorkerUpload ==
    /\ \E i \in 1 .. Len(clip_workers) :
          /\ clip_workers[i].pc = "upload"
          /\ \E ok \in BOOLEAN :
                clip_workers' =
                    [ clip_workers EXCEPT
                        ![i] = [ @ EXCEPT !.pc = "finally",
                                          !.report = IF ok THEN "READY"
                                                     ELSE "FAILED" ] ]
    /\ clip_in_progress' = clip_in_progress
    /\ clip_files' = clip_files
    /\ ClipWorkerUnchanged

\* A finally clause that leaves the slot taken.
SlotAfterClip_Kept == clip_in_progress

\* lines 694-695: with self.clip_lock: self.clip_in_progress = False
SlotAfterClip == FALSE

\* lines 688-695: the finally clause removes the clip file if there is a
\* clip path and releases the slot; the thread ends.
ClipWorkerFinally ==
    /\ \E i \in 1 .. Len(clip_workers) :
          /\ clip_workers[i].pc = "finally"
          /\ clip_workers' = RemoveAt(clip_workers, i)
          /\ clip_files' =
                IF clip_workers[i].clip_path # None
                THEN clip_files \ { clip_workers[i].clip_path }
                ELSE clip_files
    /\ clip_in_progress' = SlotAfterClip
    /\ ClipWorkerUnchanged

(* --------------------------- the dispatcher ----------------------------- *)

\* No api_request call in progress.
HttpIdle ==
    [ pc |-> "idle", retry |-> TRUE, sends |-> 0, got401 |-> 0, cleared |-> 0,
      refreshes |-> 0, refresh_ok |-> FALSE, outcome |-> None,
      result |-> None ]

\* create_pipeline, lines 970-971 / 979-980: the elements as launched.
PipelineAsBuilt == [ host |-> "0.0.0.0", port |-> 5004, pt |-> 96 ]

\* NuvionEventState.__init__: the backend in force after lines 570-591.
Backends == { "siglip", "triton", "none" }

\* What the backend is chosen from: NUVION_ZSAD_BACKEND, whether the
\* zero-shot detector came up enabled, and whether the Triton client class
\* could be imported.
BackendConfigs ==
    [ zsad_backend : { "siglip", "triton", "none", "yolo" },
      zero_shot_enabled : BOOLEAN,
      triton_client : BOOLEAN ]

\* A constructor that keeps siglip although the detector is disabled.
EffectiveBackend_KeepsSiglip(c) ==
    IF c.zsad_backend = "siglip" THEN "siglip"
    ELSE IF c.zsad_backend = "triton"
    THEN IF c.triton_client THEN "triton" ELSE "none"
    ELSE "none"

\* NuvionEventState.__init__, lines 570-591: self.backend.
EffectiveBackend(c) ==
    IF c.zsad_backend = "siglip"
    THEN IF c.zero_shot_enabled THEN "siglip" ELSE "none"
    ELSE IF c.zsad_backend = "triton"
    THEN IF c.triton_client THEN "triton" ELSE "none"
    ELSE "none"

\* line 556 (self.running = True) and run, lines 1076-1078: the pipeline
\* is PLAYING and the main loop runs; no shutdown call has been made.
AppStarted ==
    [ running |-> TRUE, state |-> "PLAYING", loop |-> "running", shutdowns |-> 0 ]

\* The state after construction: the fields of NuvionEventState.__init__,
\* the module globals and the pipeline as built. Init is that state under the
\* default configuration of the production labels and of the RTP override
\* (NUVION_PRODUCTION_LABELS and NUVION_RTP_REMOTE_IP unset).

InitState ==
    /\ now = StartTime
    /\ zero_shot_queue = << >>
    /\ zero_shot_last_sample = 0
    /\ worker = WorkerIdle
    /\ classifying = 0
    /\ last_status = None
    /\ last_sent_status = None
    /\ last_sent_at = 0
    /\ last_production_at = 0
    /\ clip_in_progress = FALSE
    /\ clip_last_started = 0
    /\ clip_workers = << >>
    /\ emitted = [ first |-> None, defect_seen |-> FALSE,
                   prev |-> [ status |-> None, at |-> 0 ],
                   last |-> [ status |-> None, at |-> 0 ] ]
    /\ clip_starts = << >>
    /\ signaling_loop = None
    /\ outbound_queue = None
    /\ loop_callbacks = << >>
    /\ enq_outcomes = { }
    /\ sig_pc = "start"
    /\ websocket = None
    /\ sender_task = None
    /\ sender_msg = << >>
    /\ auth_token = None
    /\ pipeline = PipelineAsBuilt
    /\ last_broadcast = << >>
    /\ cmd_log = { }
    /\ http = HttpIdle
    /\ wire_log = [ calls |-> 0, offline |-> { }, session |-> << >>,
                    written |-> << >>, lost |-> { } ]
    /\ session_log = << >>
    /\ handler_log = [ outcomes |-> { }, configured |-> << >>, set_on |-> None ]
    /\ sdp_text = << >>
    /\ sdp_parsed = << >>
    /\ clip_files = { }
    /\ process = "running"
    /\ app = AppStarted

\* No call of _build_clip_from_segments has been made.
ClipJobIdle ==
    [ pc |-> "idle", detected_at |-> 0, wake |-> 0, pre |-> << >>,
      seen |-> << >>, after |-> << >>, manifest |-> << >>, result |-> None ]

\* The setup command has not been given.
SetupNotRun ==
    [ pc |-> "shell", web |-> FALSE, cli |-> FALSE, advanced |-> FALSE,
      no_open |-> FALSE, host |-> "127.0.0.1", display |-> FALSE,
      use_web |-> None, ran |-> None ]

\* Nothing beside the threads is looked at: an empty segment directory, no
\* upload, no setup run.
AsideIdle ==
    /\ segments = << >>
    /\ clip_job = ClipJobIdle
    /\ upload_url = ""
    /\ put_log = { }
    /\ setup = SetupNotRun

Init ==
    /\ backend \in { EffectiveBackend(c) : c \in BackendConfigs }
    /\ production_labels = { }
    /\ rtp_remote_ip = ""
    /\ InitState
    /\ AsideIdle

Next ==
    \/ Tick
    \/ SigInit
    \/ RunEnqueueCallback
    \/ MaybeEnqueueFrame
    \/ WorkerGet
    \/ WorkerClassified
    \/ WorkerSendStatus
    \/ WorkerStartClipUpload
    \/ WorkerRequestUploadUrl
    \/ ClipWorkerBuild
    \/ ClipWorkerUpload
    \/ ClipWorkerFinally

Spec == Init /\ [][Next]_vars

(* ------------------------ dispatcher properties ------------------------ *)

\* C1: in every reachable state at most one classifier call is in progress
\* and the frame channel holds at most one frame.
C1_SingleClassification ==
    /\ classifying <= 1
    /\ Len(zero_shot_queue) <= 1

\* A classifier call is in progress while the next frame already waits.
C1_Witness ==
    /\ classifying = 1
    /\ Len(zero_shot_queue) = 1

\* C2: no NORMAL alert is emitted before a DEFECT alert has been: the first
\* alert ever emitted is not NORMAL, and last_sent_status is NORMAL only
\* after a DEFECT has been emitted.
C2_NoNormalBeforeDefect ==
    /\ emitted.first # "NORMAL"
    /\ last_sent_status = "NORMAL" => emitted.defect_seen

\* A NORMAL alert has been emitted (after the DEFECT that opened the stream).
C2_Witness ==
    /\ last_sent_status = "NORMAL"
    /\ emitted.last.status = "NORMAL"
    /\ emitted.first = "DEFECT"

C4_SingleClipWorker ==
    /\ Len(clip_workers) <= 1
    /\ clip_workers # << >> => clip_in_progress

\* A new trigger reaches start_clip_upload after the cooldown while the
\* clip worker of the earlier trigger still runs.
C4_Witness ==
    /\ Len(clip_workers) = 1
    /\ worker.pc = "start_clip_upload"
    /\ now - clip_last_started >= CLIP_COOLDOWN_SEC

\* C5: any two passes of the start_clip_upload gate have start timestamps
\* at least CLIP_COOLDOWN_SEC apart.
C5_CooldownBetweenStarts ==
    \A i, j \in 1 .. Len(clip_starts) :
        i < j => clip_starts[j] - clip_starts[i] >= CLIP_COOLDOWN_SEC

\* The gate was passed a second time when no clip worker was left from the
\* first pass (it had finished, or its upload-URL request had failed).
C5_Witness ==
    /\ Len(clip_starts) = 2
    /\ clip_workers = << >>
    /\ worker.pc = "request_upload_url"

(* ------------------------ signaling supervisor ------------------------- *)

\* What login() returns on success: data.accessToken.
Tokens == { "tokenA", "tokenB" }

SigFrame ==
    UNCHANGED << now, configVars, dispatchVars, outboundVars, rtpVars >>

\* The frame history of the session: a frame read ("rx") or written ("tx"),
\* kept once, in the order of its first occurrence.
Noted(log, dir, frame) ==
    IF \E i \in 1 .. Len(log) : log[i] = << dir, frame >>
    THEN log
    ELSE Append(log, << dir, frame >>)

\* signaling_client_main, lines 488-493: login, and on failure the 10 s
\* sleep before the next iteration.
SigLogin ==
    /\ sig_pc = "login"
    /\ \E token \in Tokens \cup { None } :
          IF token = None
          THEN /\ sig_pc' = "sleep"
               /\ auth_token' = auth_token
          ELSE /\ sig_pc' = "connect"
               /\ auth_token' = token
    /\ UNCHANGED << websocket, sender_task, sender_msg, wire_log, session_log >>
    /\ SigFrame

\* A supervisor that returns after the sleep.
AfterSleep_Return == "returned"

\* lines 487, 491-492, 551: after asyncio.sleep(10) the while True loop
\* starts its next iteration.
AfterSleep == "login"

\* lines 491 / 551: asyncio.sleep(10), then the next iteration.
SigSleep ==
    /\ sig_pc = "sleep"
    /\ sig_pc' = AfterSleep
    /\ UNCHANGED << websocket, sender_task, sender_msg, auth_token, wire_log,
                    session_log >>
    /\ SigFrame

\* lines 500-501: websockets.connect succeeded; a session begins.
SigConnect ==
    /\ sig_pc = "connect"
    /\ websocket' = "ws"
    /\ sig_pc' = "recv_open"
    /\ session_log' = << >>
    /\ UNCHANGED << sender_task, sender_msg, auth_token, wire_log >>
    /\ SigFrame

\* A finally clause that leaves the sender task alone.
SenderAfterSession_Left(task) == task

\* lines 547-548: if "sender_task" in locals(): sender_task.cancel()
SenderAfterSession(task) ==
    IF task = None THEN None ELSE "cancelled"

\* lines 543-551: the except and finally clauses. An item the sender had
\* taken and was still sending goes with the cancelled task.
SessionFinally ==
    /\ websocket' = None
    /\ sender_task' = SenderAfterSession(sender_task)
    /\ sender_msg' = << >>
    /\ wire_log' =
          [ wire_log EXCEPT !.lost =
               @ \cup { sender_msg[i].seq : i \in 1 .. Len(sender_msg) } ]
    /\ sig_pc' = "sleep"

\* The first frame a SockJS server can send: open, or close.
OpenFrames == { "o", "c[3000]" }

\* The open frame taken for good whatever it is.
OpenFrameOk_Any(frame) == TRUE

\* line 504: if open_frame != "o": raise
OpenFrameOk(frame) == frame = "o"

\* lines 503-515: the first frame is read; if it is "o", CONNECT is sent.
SigOpenFrame ==
    /\ sig_pc = "recv_open"
    /\ \E frame \in OpenFrames :
          IF OpenFrameOk(frame)
          THEN /\ sig_pc' = "recv_connected"
               /\ session_log' =
                     Noted(Noted(session_log, "rx", frame), "tx", "CONNECT")
               /\ UNCHANGED << websocket, sender_task, sender_msg, wire_log >>
          ELSE /\ SessionFinally
               /\ session_log' = Noted(session_log, "rx", frame)
    /\ auth_token' = auth_token
    /\ SigFrame

\* The frames a STOMP server answers CONNECT with.
ReplyFrames == { "CONNECTED", "ERROR" }

\* lines 517-529: the reply is read; if it is CONNECTED, SUBSCRIBE is sent
\* and the sender task of this session is created.
SigConnected ==
    /\ sig_pc = "recv_connected"
    /\ \E reply \in ReplyFrames :
          IF reply = "CONNECTED"
          THEN /\ sender_task' = "running"
               /\ sender_msg' = << >>
               /\ sig_pc' = "session"
               /\ wire_log' = [ wire_log EXCEPT !.session = << >> ]
               /\ session_log' =
                     Noted(Noted(session_log, "rx", reply), "tx", "SUBSCRIBE")
               /\ websocket' = websocket
          ELSE /\ SessionFinally
               /\ session_log' = Noted(session_log, "rx", reply)
    /\ auth_token' = auth_token
    /\ SigFrame

\* Anything else that ends the with-block of lines 500-541: connect fails,
\* a send or recv raises, or the server closes the socket.
SigSessionError ==
    /\ sig_pc \in { "connect", "recv_open", "recv_connected", "session" }
    /\ SessionFinally
    /\ UNCHANGED << auth_token, session_log >>
    /\ SigFrame

(* --------------------------- outbound sender --------------------------- *)

SenderFrame ==
    UNCHANGED << now, configVars, dispatchVars, signaling_loop, loop_callbacks,
                 enq_outcomes, sig_pc, websocket, sender_task, auth_token,
                 rtpVars >>

\* A sender task that goes on taking items after its cancellation.
SenderAlive_AfterCancel == sender_task # None

\* lines 529 / 548: the sender task exists and has not been cancelled.
SenderAlive == sender_task = "running"

\* A queue that hands out its newest item.
QueuePop_Lifo(q) ==
    [ item |-> q[Len(q)], rest |-> SubSeq(q, 1, Len(q) - 1) ]

\* asyncio.Queue.get on a non-empty queue: the oldest item leaves.
QueuePop(q) == [ item |-> Head(q), rest |-> Tail(q) ]

\* outbound_sender, line 402: an item is taken from the queue.
SenderGet ==
    /\ SenderAlive
    /\ sender_msg = << >>
    /\ outbound_queue # None
    /\ outbound_queue # << >>
    /\ sender_msg' = << QueuePop(outbound_queue).item >>
    /\ outbound_queue' = QueuePop(outbound_queue).rest
    /\ UNCHANGED << wire_log, session_log >>
    /\ SenderFrame

\* outbound_sender, lines 403-407: ws.send returns, or raises and the
\* failure is logged; either way the loop goes back to the queue.
SenderSend ==
    /\ SenderAlive
    /\ sender_msg # << >>
    /\ \E sent \in BOOLEAN :
          IF sent
          THEN /\ wire_log' =
                     [ wire_log EXCEPT
                          !.session = Append(@, sender_msg[1].seq),
                          !.written = Append(@, sender_msg[1].seq) ]
               /\ session_log' = Noted(session_log, "tx", "SEND")
          ELSE /\ wire_log' =
                     [ wire_log EXCEPT !.lost = @ \cup { sender_msg[1].seq } ]
               /\ session_log' = session_log
    /\ sender_msg' = << >>
    /\ outbound_queue' = outbound_queue
    /\ SenderFrame

\* The messages the dispatcher hands to enqueue_stomp_message.
DispatcherMsgs == { AnomalyMsg("DEFECT", None, None), ProductionMsg }

\* A call of enqueue_stomp_message by one of its callers (send_status,
\* report_production), made from the inference worker thread at any time.
\* The calls are numbered in the order they are made.
ProducerEnqueue ==
    /\ LoopHasRoom
    /\ wire_log.calls < MaxMessages
    /\ \E msg \in DispatcherMsgs :
          enqueue_stomp_message([ msg EXCEPT !.seq = wire_log.calls + 1 ])
    /\ wire_log' =
          [ wire_log EXCEPT
               !.calls = @ + 1,
               !.offline = IF SenderAlive THEN @ ELSE @ \cup { wire_log.calls + 1 } ]
    /\ UNCHANGED << now, configVars, dispatchVars, sig_pc, websocket,
                    sender_task, sender_msg, auth_token, session_log, rtpVars >>

\* The signaling thread with its sender task, and the producers of the
\* outbound queue.
InitOutbound ==
    /\ backend = "siglip"
    /\ production_labels = { "widget" }
    /\ rtp_remote_ip = ""
    /\ InitState
    /\ AsideIdle

NextOutbound ==
    \/ SigInit
    \/ SigLogin
    \/ SigSleep
    \/ SigConnect
    \/ SigOpenFrame
    \/ SigConnected
    \/ SigSessionError
    \/ ProducerEnqueue
    \/ RunEnqueueCallback
    \/ SenderGet
    \/ SenderSend

SpecOutbound == InitOutbound /\ [][NextOutbound]_vars

\* C6: in every reachable state the outbound queue holds at most
\* OUTBOUND_QUEUE_MAX messages.
C6_OutboundQueueBounded ==
    outbound_queue # None => Len(outbound_queue) <= OUTBOUND_QUEUE_MAX

\* The queue is full in a disconnected period (the sender cancelled) while
\* a further message is on its way in.
C6_Witness ==
    /\ outbound_queue # None
    /\ Len(outbound_queue) = OUTBOUND_QUEUE_MAX
    /\ sender_task = "cancelled"
    /\ loop_callbacks # << >>

\* C7: enqueue_stomp_message returns false whenever the message is not
\* placed in the outbound queue (outbound not initialised, or queue full),
\* and true only if the message was queued.
C7_FalseWhenNotQueued ==
    \A o \in enq_outcomes :
        /\ o[2] # "queued" => o[1] = FALSE
        /\ o[1] = TRUE => o[2] = "queued"

(* ------------------------- RTP endpoint command ------------------------ *)

\* DEVICE_USERNAME and the host of SERVER_BASE_URL.
DEVICE_USERNAME == "device"
ServerHost == "signaling.example"

\* int(x) for the numerals the model uses; any other text raises ValueError.
IntTable == ("40100" :> 40100) @@ ("101" :> 101) @@ ("40200" :> 40200)
                @@ ("102" :> 102)
IsNumeral(x) == x \in DOMAIN IntTable

\* An SDP text, line by line. A line is its kind (what it starts with), its
\* whitespace-separated parts, and for an rtpmap line the text between
\* "a=rtpmap:" and the first blank and whether "H264" occurs in the line.
SdpLine(kind, parts, pt_str, h264) ==
    [ kind |-> kind, parts |-> parts, pt_str |-> pt_str, h264 |-> h264 ]

SdpA ==
    << SdpLine("other", << "v=0" >>, "", FALSE),
       SdpLine("c=", << "c=IN", "IP4", "10.0.0.9" >>, "", FALSE),
       SdpLine("m=video", << "m=video", "40200", "RTP/AVP", "102" >>, "", FALSE),
       SdpLine("a=rtpmap:", << "a=rtpmap:102", "H264/90000" >>, "102", TRUE) >>

\* The same with the unspecified address in its c= line.
SdpB == [ SdpA EXCEPT ![2] = SdpLine("c=", << "c=IN", "IP4", "0.0.0.0" >>, "", FALSE) ]

\* An SDP text that has no m=video line.
SdpNoMedia == << SdpA[1], SdpA[2], SdpA[4] >>

\* The index of the first line the loop of parse_rtp_sdp stops at, 0 if none.
FirstLine(sdp, kind, h264) ==
    LET hits == { i \in 1 .. Len(sdp) :
                    sdp[i].kind = kind /\ (h264 => sdp[i].h264) }
    IN  IF hits = { } THEN 0
        ELSE CHOOSE i \in hits : \A j \in hits : i <= j

\* parse_rtp_sdp(sdp) -> (ip, port, pt)
parse_rtp_sdp(sdp) ==
    LET c == FirstLine(sdp, "c=", FALSE)
        m == FirstLine(sdp, "m=video", FALSE)
        a == FirstLine(sdp, "a=rtpmap:", TRUE)
        ip == IF c # 0 /\ Len(sdp[c].parts) >= 3
              THEN sdp[c].parts[3] ELSE "0.0.0.0"
        port == IF m # 0 /\ Len(sdp[m].parts) >= 4 /\ IsNumeral(sdp[m].parts[2])
                THEN IntTable[sdp[m].parts[2]] ELSE 5004
        mpt == IF m # 0 /\ Len(sdp[m].parts) >= 4 /\ IsNumeral(sdp[m].parts[4])
               THEN IntTable[sdp[m].parts[4]] ELSE 96
        pt == IF a # 0 /\ IsNumeral(sdp[a].pt_str)
              THEN IntTable[sdp[a].pt_str] ELSE mpt
    IN  [ ip |-> ip, port |-> port, pt |-> pt ]

\* The bodies a MESSAGE on /user/queue/command can carry, as the fields
\* the handler reads (None: the key is absent or null; numbers are written
\* as their numerals; sdp << >>: absent or empty). RTP_ENDPOINT_READY for
\* this device or for nobody in particular, with every combination of the
\* other fields:
ReadyCommands ==
    [ json : { TRUE },
      type : { "RTP_ENDPOINT_READY" },
      broadcastId : { None, DEVICE_USERNAME },
      ip : { None, "0.0.0.0", "10.0.0.5" },
      port : { None, "40100", "n/a" },
      payloadType : { None, "101" },
      sdp : { << >>, SdpA, SdpB } ]

\* A complete RTP_ENDPOINT_READY command.
CompleteCommand ==
    [ json |-> TRUE, type |-> "RTP_ENDPOINT_READY", broadcastId |-> None,
      ip |-> "10.0.0.5", port |-> "40100", payloadType |-> "101",
      sdp |-> << >> ]

\* The same addressed to another device, the same under another type, a
\* body that is not JSON, and one that leaves the port to an sdp that
\* has no m=video line.
Commands ==
    ReadyCommands
        \cup { [ CompleteCommand EXCEPT !.port = None, !.sdp = SdpNoMedia ],
               [ CompleteCommand EXCEPT !.broadcastId = "other-device" ],
               [ CompleteCommand EXCEPT !.type = "PING" ],
               [ CompleteCommand EXCEPT !.json = FALSE ] }

\* The handler without the type test of lines 435-436.
CommandAccepted_AnyType(cmd) ==
    /\ cmd.json
    /\ ~(cmd.broadcastId # None /\ cmd.broadcastId # DEVICE_USERNAME)
    /\ (cmd.ip = None \/ cmd.port = None \/ cmd.payloadType = None)
            => cmd.sdp # << >>

\* handle_rtp_endpoint_ready, lines 430-453: TRUE when the handler goes on
\* past its early returns.
CommandAccepted(cmd) ==
    /\ cmd.json
    /\ cmd.type = "RTP_ENDPOINT_READY"
    /\ ~(cmd.broadcastId # None /\ cmd.broadcastId # DEVICE_USERNAME)
    /\ (cmd.ip = None \/ cmd.port = None \/ cmd.payloadType = None)
            => cmd.sdp # << >>

\* The handler without the override of lines 462-464.
CommandTarget_NoOverride(cmd) ==
    LET parsed == parse_rtp_sdp(cmd.sdp)
        need == cmd.ip = None \/ cmd.port = None \/ cmd.payloadType = None
        ip == IF need /\ cmd.ip = None THEN parsed.ip ELSE cmd.ip
    IN  [ host |-> IF ip = "0.0.0.0" THEN ServerHost ELSE ip,
          port_ok |-> cmd.port = None \/ IsNumeral(cmd.port),
          port |-> IF cmd.port = None THEN parsed.port
                   ELSE IF IsNumeral(cmd.port) THEN IntTable[cmd.port] ELSE 0,
          pt_ok |-> cmd.payloadType = None \/ IsNumeral(cmd.payloadType),
          pt |-> IF cmd.payloadType = None THEN parsed.pt
                 ELSE IF IsNumeral(cmd.payloadType)
                 THEN IntTable[cmd.payloadType] ELSE 0 ]

\* lines 444-467: the ip, port and pt the handler arrives at; port and pt
\* are numbers when they come from the SDP and text when from the command.
CommandTarget(cmd) ==
    LET parsed == parse_rtp_sdp(cmd.sdp)
        need == cmd.ip = None \/ cmd.port = None \/ cmd.payloadType = None
        ip == IF need /\ cmd.ip = None THEN parsed.ip ELSE cmd.ip
    IN  [ host |-> IF rtp_remote_ip # "" THEN rtp_remote_ip
                   ELSE IF ip = "0.0.0.0" THEN ServerHost
                   ELSE ip,
          port_ok |-> cmd.port = None \/ IsNumeral(cmd.port),
          port |-> IF cmd.port = None THEN parsed.port
                   ELSE IF IsNumeral(cmd.port) THEN IntTable[cmd.port] ELSE 0,
          pt_ok |-> cmd.payloadType = None \/ IsNumeral(cmd.payloadType),
          pt |-> IF cmd.payloadType = None THEN parsed.pt
                 ELSE IF IsNumeral(cmd.payloadType)
                 THEN IntTable[cmd.payloadType] ELSE 0 ]

\* line 920: self.rtp_ssrc = get_rtp_ssrc(), fixed when the pipeline is
\* built; configure_rtp_sink sets it on rtp_pay each time (line 1047).
rtp_ssrc == "ssrc"

\* A configure_rtp_sink that leaves the elements as they are.
configure_rtp_sink_Skip(host, port, pt) ==
    pipeline' = pipeline

\* GStreamerInferenceApp.configure_rtp_sink(host, port, pt)
configure_rtp_sink(host, port, pt) ==
    pipeline' = [ host |-> host, port |-> port, pt |-> pt ]

\* configure_rtp_sink, lines 1048-1051: the four set_property calls are made
\* in the body of the method, on the thread of its caller, which is the
\* signaling thread (line 474, inside asyncio.run of line 1073).
SetPropertyThread == "signaling thread"

\* What the history keeps of a command body: an RTP_ENDPOINT_READY command
\* addressed to this device (or to nobody) that gives ip, port and payload
\* type itself or carries an sdp; another JSON object; or text that is not
\* JSON.
CommandKind(cmd) ==
    IF ~cmd.json THEN "not-json"
    ELSE IF /\ cmd.type = "RTP_ENDPOINT_READY"
            /\ cmd.broadcastId \in { None, DEVICE_USERNAME }
            /\ \/ cmd.sdp # << >>
               \/ None \notin { cmd.ip, cmd.port, cmd.payloadType }
    THEN "RTP_ENDPOINT_READY"
    ELSE "other"

\* What the handler history keeps of a command whose sink update went
\* through: the fields the destination is taken from.
Advertised(cmd) ==
    [ ip |-> cmd.ip, port |-> cmd.port, payloadType |-> cmd.payloadType,
      sdp |-> cmd.sdp ]

\* The handler history after an inbound message that did not parse, of
\* kind what, met fate.
Handled(what, fate) ==
    [ handler_log EXCEPT !.outcomes = @ \cup { << what, fate >> } ]

\* signaling_client_main, lines 531-541, with handle_rtp_endpoint_ready and
\* notify_broadcast_started: a MESSAGE frame for /user/queue/command is
\* received and handled. int(port) / int(pt) of line 474 and the send of
\* line 423 can raise; the exception ends the session.
SigRecvCommand ==
    /\ sig_pc = "session"
    /\ \E cmd \in Commands :
          /\ cmd_log' = cmd_log \cup { CommandKind(cmd) }
          /\ http' = http
          /\ IF ~CommandAccepted(cmd)
             THEN /\ handler_log' =
                        IF cmd.json THEN handler_log
                        ELSE Handled("body_not_json", "continued")
                  /\ UNCHANGED << pipeline, last_broadcast, sessionVars >>
             ELSE LET t == CommandTarget(cmd) IN
                    IF ~(t.port_ok /\ t.pt_ok)
                    THEN /\ SessionFinally
                         /\ handler_log' = Handled("field_not_a_number", "session_ended")
                         /\ UNCHANGED << pipeline, last_broadcast, auth_token,
                                         session_log >>
                    ELSE /\ configure_rtp_sink(t.host, t.port, t.pt)
                         /\ handler_log' =
                               [ handler_log EXCEPT
                                    !.configured = << Advertised(cmd) >>,
                                    !.set_on = SetPropertyThread ]
                         /\ \E sent \in BOOLEAN :
                               IF sent
                               THEN /\ last_broadcast' =
                                          << [ payloadType |-> t.pt,
                                               ssrc |-> rtp_ssrc ] >>
                                    /\ session_log' = Noted(session_log, "tx", "SEND")
                                    /\ UNCHANGED << sig_pc, websocket, sender_task,
                                                    sender_msg, auth_token, wire_log >>
                               ELSE /\ last_broadcast' = last_broadcast
                                    /\ SessionFinally
                                    /\ UNCHANGED << auth_token, session_log >>
    /\ UNCHANGED << now, configVars, dispatchVars, outboundVars >>

\* Inbound messages that carry no command: a SockJS heartbeat "h", which
\* does not start with "a[" and is passed over (lines 532-533), and an
\* "a[" message whose array does not parse, where json.loads of line 534
\* raises and the exception ends the session.
SigRecvOther ==
    /\ sig_pc = "session"
    /\ \E message \in { "heartbeat", "array_not_json" } :
          IF message = "heartbeat"
          THEN UNCHANGED << handler_log, sessionVars >>
          ELSE /\ handler_log' = Handled(message, "session_ended")
               /\ SessionFinally
               /\ UNCHANGED << auth_token, session_log >>
    /\ UNCHANGED << now, configVars, dispatchVars, outboundVars, pipeline,
                    last_broadcast, cmd_log, http >>

\* The signaling thread and the commands of the server, with the RTP
\* override set or not.
InitSignaling ==
    /\ backend = "none"
    /\ production_labels = { }
    /\ rtp_remote_ip \in { "", "203.0.113.7" }
    /\ InitState
    /\ AsideIdle

NextSignaling ==
    \/ SigInit
    \/ SigLogin
    \/ SigSleep
    \/ SigConnect
    \/ SigOpenFrame
    \/ SigConnected
    \/ SigSessionError
    \/ SigRecvCommand
    \/ SigRecvOther

SpecSignaling == InitSignaling /\ [][NextSignaling]_vars

\* C8: until an RTP_ENDPOINT_READY command has been accepted, the RTP sink
\* stays at 0.0.0.0:5004 with pt 96, whatever else has happened (login,
\* CONNECTED, other commands, reconnects).
C8_SinkUntouchedBeforeReady ==
    "RTP_ENDPOINT_READY" \notin cmd_log
        => pipeline = [ host |-> "0.0.0.0", port |-> 5004, pt |-> 96 ]

\* A session is up again after an earlier one ended, commands that are not
\* RTP_ENDPOINT_READY have been handled, and none that is.
C8_Witness ==
    /\ "RTP_ENDPOINT_READY" \notin cmd_log
    /\ "other" \in cmd_log
    /\ sig_pc = "session"
    /\ sender_task = "running"
    /\ pipeline = PipelineAsBuilt

(* ------------------------------ HTTP client ---------------------------- *)

\* How urllib.request.urlopen and the reading of the body can end: a 2xx
\* with a JSON body, a 2xx with an empty body, a 2xx whose body does not
\* decode, HTTP 401, another HTTP error status, a timeout, a connection
\* error.
HttpOutcomes ==
    { "json", "empty", "undecodable", "401", "http_error", "timeout",
      "connection_error" }

\* The re-auth branch taken on any HTTP error status.
ReauthOn_AnyHttpError(outcome, retry) ==
    outcome \in { "401", "http_error" } /\ retry

\* api_request, line 329: the branch that clears the token and refreshes.
ReauthOn(outcome, retry) ==
    outcome = "401" /\ retry

\* The nested call made with the caller's own retry flag.
NestedRetry_Kept == http.retry

\* api_request, line 333: the nested call is made with retry False.
NestedRetry == FALSE

ApiFrame ==
    UNCHANGED << now, configVars, dispatchVars, outboundVars, sig_pc, websocket,
                 sender_task, sender_msg, wire_log, session_log, pipeline,
                 last_broadcast, cmd_log, handler_log >>

\* request_upload_url / update_clip_status call api_request with the
\* default retry=True.
ApiCall ==
    /\ http.pc = "idle"
    /\ http' = [ HttpIdle EXCEPT !.pc = "token" ]
    /\ auth_token' = auth_token
    /\ ApiFrame

\* line 316: token = get_auth_token() or refresh_auth_token(). With a token
\* stored the request is built and sent; without one login() is awaited.
ApiToken ==
    /\ http.pc = "token"
    /\ http' = [ http EXCEPT !.pc = IF auth_token # None THEN "urlopen"
                                    ELSE "refresh" ]
    /\ auth_token' = auth_token
    /\ ApiFrame

\* refresh_auth_token called from line 316 returns: a token, which it has
\* stored, or None; the request is sent either way.
ApiRefreshed ==
    /\ http.pc = "refresh"
    /\ \E token \in Tokens \cup { None } :
          auth_token' = IF token # None THEN token ELSE auth_token
    /\ http' = [ http EXCEPT !.pc = "urlopen",
                             !.refreshes = IF http.got401 > 0 THEN @ + 1 ELSE @ ]
    /\ ApiFrame

\* lines 324-337: urlopen returns or raises. Line 330 clears the token and
\* line 331 starts the refresh; every other failure is logged and None is
\* returned.
ApiResponse ==
    /\ http.pc = "urlopen"
    /\ \E outcome \in HttpOutcomes :
          LET h == [ http EXCEPT !.sends = @ + 1, !.outcome = outcome,
                                 !.got401 = IF outcome = "401" THEN @ + 1 ELSE @ ]
          IN  IF outcome = "json"
              THEN /\ http' = [ h EXCEPT !.pc = "done", !.result = "json" ]
                   /\ auth_token' = auth_token
              ELSE IF ReauthOn(outcome, http.retry)
              THEN /\ http' = [ h EXCEPT !.pc = "refresh_401", !.cleared = @ + 1 ]
                   /\ auth_token' = None
              ELSE /\ http' = [ h EXCEPT !.pc = "done", !.result = None ]
                   /\ auth_token' = auth_token
    /\ ApiFrame

\* lines 331-334: refresh_auth_token returns. With a token the request is
\* made once more by the nested call; without one None is returned.
ApiRefreshed401 ==
    /\ http.pc = "refresh_401"
    /\ \E token \in Tokens \cup { None } :
          IF token # None
          THEN /\ auth_token' = token
               /\ http' = [ http EXCEPT !.pc = "token", !.retry = NestedRetry,
                                        !.refreshes = @ + 1,
                                        !.refresh_ok = TRUE ]
          ELSE /\ auth_token' = auth_token
               /\ http' = [ http EXCEPT !.pc = "done", !.result = None,
                                        !.refreshes = @ + 1 ]
    /\ ApiFrame

\* api_request has returned to its caller.
ApiReturn ==
    /\ http.pc = "done"
    /\ http' = HttpIdle
    /\ auth_token' = auth_token
    /\ ApiFrame

\* A caller of api_request beside the signaling thread, which stores the
\* token of each login of its own (line 493).
InitHttp ==
    /\ backend = "siglip"
    /\ production_labels = { }
    /\ rtp_remote_ip = ""
    /\ InitState
    /\ AsideIdle

NextHttp ==
    \/ SigInit
    \/ SigLogin
    \/ SigSleep
    \/ SigConnect
    \/ SigOpenFrame
    \/ SigConnected
    \/ SigSessionError
    \/ ApiCall
    \/ ApiToken
    \/ ApiRefreshed
    \/ ApiResponse
    \/ ApiRefreshed401
    \/ ApiReturn

SpecHttp == InitHttp /\ [][NextHttp]_vars

\* C9 as stated: a call that met a 401 has cleared the token, called the
\* refresh once and sent the request exactly twice; a second 401 yields None.
C9_ExactlyOneRetry ==
    (http.pc = "done" /\ http.got401 >= 1)
        => /\ http.cleared = 1
           /\ http.refreshes = 1
           /\ http.sends = 2
           /\ http.got401 = 2 => http.result = None

\* C9, amended: a call never sends more than twice; a call that met a 401
\* has cleared the token and called the refresh exactly once, and has sent
\* the request a second time exactly if that refresh yielded a token; a
\* second 401 yields None with no further refresh.
C9_AtMostOneRetry ==
    /\ http.sends <= 2
    /\ http.refreshes <= 1
    /\ (http.pc = "done" /\ http.got401 >= 1)
          => /\ http.cleared = 1
             /\ http.refreshes = 1
             /\ http.sends = IF http.refresh_ok THEN 2 ELSE 1
             /\ http.got401 = 2 => http.result = None

\* A 401, one refresh, one retry, and the retry's JSON is returned.
C9_Witness ==
    /\ http.pc = "done"
    /\ http.got401 = 1
    /\ http.refreshes = 1
    /\ http.sends = 2
    /\ http.result = "json"

\* C10: when the HTTP call ends in anything but a JSON body or a 401 with
\* retry enabled, api_request returns None at once: no further attempt, no
\* exception, the stored token as it was.
C10_OtherFailuresReturnNone ==
    [][ ( /\ http.pc = "urlopen"
          /\ http'.pc # "urlopen"
          /\ http'.outcome # "json"
          /\ ~(http'.outcome = "401" /\ http.retry) )
        => ( /\ http'.pc = "done"
             /\ http'.result = None
             /\ http'.cleared = http.cleared
             /\ auth_token' = auth_token ) ]_vars

\* A timeout was met with a token stored: None is returned, the token kept.
C10_Witness ==
    /\ http.pc = "done"
    /\ http.outcome = "timeout"
    /\ http.result = None
    /\ http.sends = 1
    /\ auth_token # None

(* ------------------- outbound order and persistence -------------------- *)

\* C11: within one signaling session the messages are written to the
\* socket in the order of their enqueue calls.
C11_FifoWithinSession ==
    \A i, j \in 1 .. Len(wire_log.session) :
        i < j => wire_log.session[i] < wire_log.session[j]

\* Two messages have been written in one session while an earlier message
\* had gone out in an earlier session.
C11_Witness ==
    /\ Len(wire_log.session) >= 2
    /\ Len(wire_log.written) > Len(wire_log.session)

\* C12: no message leaves the outbound queue without being written to the
\* socket of a session, and what is written over all sessions is in the
\* order of the enqueue calls.
C12_NothingLostAcrossReconnects ==
    /\ wire_log.lost = { }
    /\ \A i, j \in 1 .. Len(wire_log.written) :
          i < j => wire_log.written[i] < wire_log.written[j]

\* C13: once created, the outbound queue is never replaced or cleared; it
\* only grows at its tail by an enqueue or loses its head to the sender
\* task of a session that is up.
C13_QueuePersistsAcrossReconnects ==
    [][ outbound_queue # None =>
          /\ outbound_queue' # None
          /\ \/ outbound_queue' = outbound_queue
             \/ /\ Len(outbound_queue') = Len(outbound_queue) + 1
                /\ SubSeq(outbound_queue', 1, Len(outbound_queue)) = outbound_queue
             \/ /\ sender_task = "running"
                /\ outbound_queue # << >>
                /\ outbound_queue' = Tail(outbound_queue) ]_vars

\* A message handed over while no sender task was up has been written by
\* the sender of a later session.
C13_Witness ==
    \E i \in 1 .. Len(wire_log.written) :
        wire_log.written[i] \in wire_log.offline

(* ------------------------- supervisor liveness -------------------------- *)

\* The event loop runs the supervisor: a sleep that can end does end.
SpecSupervisor == SpecSignaling /\ WF_vars(SigSleep)

\* The steps of signaling_client_main that are not failures.
ForwardSteps ==
    { << "start", "login" >>, << "login", "connect" >>,
      << "connect", "recv_open" >>, << "recv_open", "recv_connected" >>,
      << "recv_connected", "session" >>, << "sleep", "login" >> }

\* C14: every failure of the supervisor (login, handshake, socket, handler)
\* leaves the socket handle None and no sender task running and leads to
\* the sleep, and every sleep is followed by a new login attempt.
C14_SupervisorRestarts ==
    /\ [][ (sig_pc' # sig_pc /\ << sig_pc, sig_pc' >> \notin ForwardSteps)
             => /\ sig_pc' = "sleep"
                /\ websocket' = None
                /\ sender_task' # "running" ]_vars
    /\ (sig_pc = "sleep") ~> (sig_pc = "login")

\* The supervisor is logging in again after a session that had been up.
C14_Witness ==
    /\ sig_pc = "login"
    /\ sender_task = "cancelled"
    /\ websocket = None

(* --------------------------- session protocol --------------------------- *)

\* C15: in every session the first frame read is "o" before anything is
\* written, the first frame written is CONNECT, and SUBSCRIBE and SEND are
\* written only after CONNECTED has been read.
C15_HandshakeOrder ==
    LET n == Len(session_log)
        Written(i) == session_log[i][1] = "tx"
    IN  /\ (n >= 1 /\ session_log[1] # << "rx", "o" >>)
              => \A i \in 1 .. n : ~Written(i)
        /\ \A i \in 1 .. n :
              Written(i) =>
                 \E j \in 1 .. i : session_log[j] = << "tx", "CONNECT" >>
        /\ \A i \in 1 .. n :
              session_log[i] \in { << "tx", "SUBSCRIBE" >>, << "tx", "SEND" >> }
                 => \E j \in 1 .. (i - 1) : session_log[j] = << "rx", "CONNECTED" >>

\* A session has gone through the whole exchange and has written a queued
\* message that was handed over before the session was up.
C15_Witness ==
    /\ session_log = << << "rx", "o" >>, << "tx", "CONNECT" >>,
                        << "rx", "CONNECTED" >>, << "tx", "SUBSCRIBE" >>,
                        << "tx", "SEND" >> >>
    /\ \E i \in 1 .. Len(wire_log.session) :
          wire_log.session[i] \in wire_log.offline

(* --------------------------- inbound messages --------------------------- *)

\* C16: an inbound message that does not parse (the frame array, the
\* command body or its fields) is passed over and the session goes on.
C16_MalformedInboundSkipped ==
    \A o \in handler_log.outcomes : o[2] = "continued"

\* What the sink is to be set to for the fields a command advertised: the
\* command's own ip, port and payload type, or for a missing one the value
\* of the c=, m=video and H264 a=rtpmap line of its sdp; the host is the
\* override if set, the signaling host for 0.0.0.0.
ExpectedSink(adv) ==
    LET sdp_ip == IF adv.sdp = SdpB THEN "0.0.0.0" ELSE "10.0.0.9"
        ip == IF adv.ip # None THEN adv.ip ELSE sdp_ip
    IN  [ host |-> IF rtp_remote_ip # "" THEN rtp_remote_ip
                   ELSE IF ip = "0.0.0.0" THEN "signaling.example"
                   ELSE ip,
          port |-> IF adv.port = "40100" THEN 40100 ELSE 40200,
          pt |-> IF adv.payloadType = "101" THEN 101 ELSE 102 ]

\* The fields name a port, in the command or in the m=video line of its sdp.
AdvertisesPort(adv) ==
    adv.port # None \/ FirstLine(adv.sdp, "m=video", FALSE) # 0

\* C17: after an accepted RTP_ENDPOINT_READY command the sink's host is
\* the override if one is configured, else the signaling host if the
\* advertised address is 0.0.0.0, else the advertised address; port and
\* payload type are the advertised ones.
C17_SinkDestination ==
    \A i \in 1 .. Len(handler_log.configured) :
        AdvertisesPort(handler_log.configured[i])
            => pipeline = ExpectedSink(handler_log.configured[i])

\* The override is set and a command advertising another address, with
\* its port in the sdp, has been applied.
C17_Witness ==
    /\ rtp_remote_ip # ""
    /\ handler_log.configured # << >>
    /\ handler_log.configured[1].ip = "10.0.0.5"
    /\ handler_log.configured[1].port = None
    /\ pipeline.host = rtp_remote_ip
    /\ pipeline.port = 40200

(* ------------------------------ SDP parser ------------------------------ *)

\* Lines an SDP text can be made of: the three lines of a video section for
\* address 10.0.0.9, port 40200 and payload type 102, a connection line of
\* another address family, an audio section and the version line.
SdpLines ==
    { SdpLine("other", << "v=0" >>, "", FALSE),
      SdpLine("c=", << "c=IN", "IP4", "10.0.0.9" >>, "", FALSE),
      SdpLine("c=", << "c=IN", "IP6", "2001:db8::9" >>, "", FALSE),
      SdpLine("other", << "m=audio", "40300", "RTP/AVP", "111" >>, "", FALSE),
      SdpLine("a=rtpmap:", << "a=rtpmap:111", "opus/48000/2" >>, "111", FALSE),
      SdpLine("m=video", << "m=video", "40200", "RTP/AVP", "102" >>, "", FALSE),
      SdpLine("a=rtpmap:", << "a=rtpmap:102", "H264/90000" >>, "102", TRUE) }

SdpFrame ==
    UNCHANGED << now, backend, production_labels, rtp_remote_ip, asideVars,
                 dispatchVars, outboundVars, sessionVars, rtpVars >>

\* One more line of the text that is going to be parsed.
SdpAppendLine ==
    /\ sdp_parsed = << >>
    /\ Len(sdp_text) < MaxSdpLines
    /\ \E line \in SdpLines : sdp_text' = Append(sdp_text, line)
    /\ sdp_parsed' = sdp_parsed
    /\ SdpFrame

\* parse_rtp_sdp(sdp) is called and returns.
SdpParse ==
    /\ sdp_parsed = << >>
    /\ sdp_parsed' = << parse_rtp_sdp(sdp_text) >>
    /\ sdp_text' = sdp_text
    /\ SdpFrame

InitSdp ==
    /\ backend = "none"
    /\ production_labels = { }
    /\ rtp_remote_ip = ""
    /\ InitState
    /\ AsideIdle

NextSdp ==
    \/ SdpAppendLine
    \/ SdpParse

SpecSdp == InitSdp /\ [][NextSdp]_vars

\* C18: for a text that contains the lines c=IN IP4 10.0.0.9,
\* m=video 40200 RTP/AVP 102 and a=rtpmap:102 H264/90000, among other lines
\* and in any position, parse_rtp_sdp returns (10.0.0.9, 40200, 102).
C18_SdpRoundTrip ==
    LET Has(parts) == \E i \in 1 .. Len(sdp_text) : sdp_text[i].parts = parts
    IN  ( /\ sdp_parsed # << >>
          /\ Has(<< "c=IN", "IP4", "10.0.0.9" >>)
          /\ Has(<< "m=video", "40200", "RTP/AVP", "102" >>)
          /\ Has(<< "a=rtpmap:102", "H264/90000" >>) )
        => sdp_parsed[1] = [ ip |-> "10.0.0.9", port |-> 40200, pt |-> 102 ]

(* -------------------------- frame tap properties ------------------------ *)

\* C19: the backend in force is none for a backend setting that is neither
\* siglip nor triton, for siglip with the detector disabled and for triton
\* without a client; and with the backend none no frame offer changes the
\* sample timestamp or the frame channel, and no alert, production event or
\* clip upload comes about.
C19_InertWithoutBackend ==
    /\ \A c \in BackendConfigs :
          ( \/ c.zsad_backend \notin { "siglip", "triton" }
            \/ c.zsad_backend = "siglip" /\ ~c.zero_shot_enabled
            \/ c.zsad_backend = "triton" /\ ~c.triton_client )
              => EffectiveBackend(c) = "none"
    /\ backend = "none" =>
          /\ zero_shot_last_sample = 0
          /\ zero_shot_queue = << >>
          /\ worker = WorkerIdle
          /\ last_status = None
          /\ last_sent_status = None
          /\ last_production_at = 0
          /\ emitted.first = None
          /\ ~clip_in_progress
          /\ clip_starts = << >>
          /\ clip_workers = << >>
          /\ loop_callbacks = << >>
          /\ enq_outcomes = { }
          /\ (outbound_queue = None \/ outbound_queue = << >>)

\* The backend is none, the signaling thread is up to take messages, and
\* time has passed with frames arriving.
C19_Witness ==
    /\ backend = "none"
    /\ signaling_loop # None
    /\ now = EndTime

CLIP_PRE_SEC == 2
CLIP_POST_SEC == 2
CLIP_SEGMENT_SEC == 1
\* How many segment files there are at most when the agent is looked at.
MaxOldSegments == 5

\* int(math.ceil(a / b)) for positive integers.
CeilDiv(a, b) == (a + b - 1) \div b

\* lines 721-722: pre_count and post_count.
PreCount ==
    IF CeilDiv(CLIP_PRE_SEC, CLIP_SEGMENT_SEC) > 1
    THEN CeilDiv(CLIP_PRE_SEC, CLIP_SEGMENT_SEC) ELSE 1
PostCount ==
    IF CeilDiv(CLIP_POST_SEC, CLIP_SEGMENT_SEC) > 1
    THEN CeilDiv(CLIP_POST_SEC, CLIP_SEGMENT_SEC) ELSE 1

\* The directory is the sequence of the mtimes of its files, the i-th file
\* being segment_<i>.mp4; a list of segments is a list of file numbers.
\* segments.sort(key=os.path.getmtime): a stable sort of the file numbers.
SortByMtime(dir) ==
    LET n == Len(dir)
        Rank(i) ==
            Cardinality({ j \in 1 .. n :
                            dir[j] < dir[i] \/ (dir[j] = dir[i] /\ j < i) }) + 1
    IN  [ k \in 1 .. n |-> CHOOSE i \in 1 .. n : Rank(i) = k ]

\* A listing that drops nothing.
DropLast_Never(listed) == listed

\* _list_segments, lines 701-702: if len(segments) > 1: segments[:-1]
DropLast(listed) ==
    IF Len(listed) > 1 THEN SubSeq(listed, 1, Len(listed) - 1) ELSE listed

\* _list_segments, lines 697-703.
list_segments(dir) == DropLast(SortByMtime(dir))

\* segments[-count:] and segments[:count] for count >= 1.
LastN(listed, count) ==
    SubSeq(listed, IF Len(listed) > count THEN Len(listed) - count + 1 ELSE 1,
           Len(listed))
FirstN(listed, count) ==
    SubSeq(listed, 1, IF Len(listed) > count THEN count ELSE Len(listed))

\* _collect_segments, lines 705-713; before and after are << >> when not
\* given and << t >> when given.
collect_segments(dir, before, after, count) ==
    LET listed == list_segments(dir) IN
    IF before # << >>
    THEN LastN(SelectSeq(listed, LAMBDA i : dir[i] <= before[1]), count)
    ELSE IF after # << >>
    THEN FirstN(SelectSeq(listed, LAMBDA i : dir[i] >= after[1]), count)
    ELSE LastN(listed, count)

Range(seq) == { seq[k] : k \in 1 .. Len(seq) }

\* line 727: segments = pre + [s for s in post if s not in pre]
MergeSegments(pre, post) ==
    pre \o SelectSeq(post, LAMBDA i : i \notin Range(pre))

ClipFrame ==
    UNCHANGED << now, backend, production_labels, rtp_remote_ip, sdp_text,
                 sdp_parsed, upload_url, put_log, process, setup, app,
                 dispatchVars,
                 outboundVars, sessionVars, rtpVars >>

\* splitmuxsink (lines 964-974) starts the next segment file.
MuxerNewSegment ==
    /\ IF segments = << >> THEN TRUE ELSE segments[Len(segments)] < now
    /\ segments' = Append(segments, now)
    /\ clip_job' = clip_job
    /\ ClipFrame

\* splitmuxsink writes on to the file it has open, the newest one.
MuxerWrite ==
    /\ segments # << >>
    /\ segments[Len(segments)] < now
    /\ segments' = [ segments EXCEPT ![Len(segments)] = now ]
    /\ clip_job' = clip_job
    /\ ClipFrame

\* _build_clip_from_segments, lines 716-725: without ffmpeg the call returns
\* None; otherwise the pre-roll is collected and the thread sleeps.
BuildClipStart ==
    /\ clip_job.pc = "idle"
    /\ \E ffmpeg \in BOOLEAN :
          clip_job' =
              IF ffmpeg
              THEN [ clip_job EXCEPT
                       !.pc = "sleep",
                       !.detected_at = now,
                       !.wake = now + CLIP_POST_SEC + CLIP_SEGMENT_SEC,
                       !.seen = segments,
                       !.pre = collect_segments(segments, << now >>, << >>,
                                                PreCount) ]
              ELSE [ clip_job EXCEPT !.pc = "done", !.result = "none" ]
    /\ segments' = segments
    /\ ClipFrame

\* lines 726-765: after the sleep the post-roll is collected, the concat list
\* is written and ffmpeg runs; the call returns the clip path or None.
BuildClipWake ==
    /\ clip_job.pc = "sleep"
    /\ now >= clip_job.wake
    /\ LET post == collect_segments(segments, << >>, << clip_job.detected_at >>,
                                    PostCount)
           merged == MergeSegments(clip_job.pre, post)
       IN  \E returncode \in { 0, 1 } :
              clip_job' =
                  [ clip_job EXCEPT
                      !.pc = "done",
                      !.after = segments,
                      !.manifest = merged,
                      !.result = IF merged # << >> /\ returncode = 0
                                 THEN "clip" ELSE "none" ]
    /\ segments' = segments
    /\ ClipFrame

\* The mtimes, oldest first, of the sets of at most MaxOldSegments files
\* written in the seconds before start-up.
Ascending(S) ==
    LET n == Cardinality(S)
    IN  [ k \in 1 .. n |->
            CHOOSE m \in S : Cardinality({ x \in S : x < m }) = k - 1 ]

InitClip ==
    /\ backend = "none"
    /\ production_labels = { }
    /\ rtp_remote_ip = ""
    /\ InitState
    /\ segments \in
          { Ascending(S) : S \in SUBSET ((StartTime - MaxOldSegments + 1) .. StartTime) }
    /\ clip_job = ClipJobIdle
    /\ upload_url = ""
    /\ put_log = { }
    /\ setup = SetupNotRun

NextClip ==
    \/ Tick
    \/ MuxerNewSegment
    \/ MuxerWrite
    \/ BuildClipStart
    \/ BuildClipWake

SpecClip == InitClip /\ [][NextClip]_vars

\* The mtimes, at the second listing, of the files of the concat list.
ManifestMtimes == [ k \in 1 .. Len(clip_job.manifest) |->
                      clip_job.after[clip_job.manifest[k]] ]

\* The scenario as stated: at the trigger the files have the mtimes
\* t-4 .. t, and after the wait files of mtimes t+1 and t+2 are there.
ScenarioAsStated ==
    LET t == clip_job.detected_at IN
    /\ clip_job.pc = "done"
    /\ clip_job.after # << >>
    /\ Range(clip_job.seen) = (t - 4) .. t
    /\ { t + 1, t + 2 } \subseteq Range(clip_job.after)

\* C21 as stated: in the scenario (five segments t-4 .. t at the trigger,
\* pre 2, post 2, segment 1, segments t+1 and t+2 there after the wait) the
\* concat list holds exactly t-2, t-1, t+1, t+2 in that order.
C21_ScenarioManifest ==
    LET t == clip_job.detected_at IN
    ScenarioAsStated =>
        ManifestMtimes = << t - 2, t - 1, t + 1, t + 2 >>

\* The scenario with what it leaves open pinned: the file being written at
\* the trigger was written on (no file keeps the mtime t), and at the second
\* listing a file newer than t+2 is being written.
ScenarioPinned ==
    LET t == clip_job.detected_at IN
    /\ ScenarioAsStated
    /\ t \notin Range(clip_job.after)
    /\ \E m \in Range(clip_job.after) : m > t + 2

\* C21, amended: in the scenario, when the segment being written at the
\* trigger has been written on and a newer segment than t+2 is being written
\* at the second listing, the concat list holds exactly t-2, t-1, t+1, t+2
\* in that order.
C21_PinnedScenarioManifest ==
    LET t == clip_job.detected_at IN
    ScenarioPinned =>
        ManifestMtimes = << t - 2, t - 1, t + 1, t + 2 >>

C21_Witness ==
    LET t == clip_job.detected_at IN
    /\ ScenarioPinned
    /\ ManifestMtimes = << t - 2, t - 1, t + 1, t + 2 >>
    /\ clip_job.result = "clip"

\* The file of the greatest mtime in a directory that is not empty.
Newest(dir) == CHOOSE i \in 1 .. Len(dir) : \A j \in 1 .. Len(dir) : dir[j] <= dir[i]

\* C22: whatever the directory holds, one file alone included, the segment
\* of the greatest mtime at listing time is not in the list the clip is
\* assembled from.
C22_MostRecentNeverListed ==
    (clip_job.pc = "sleep" /\ clip_job.seen # << >>)
        => Newest(clip_job.seen) \notin Range(clip_job.pre)

(* ------------------- the clip worker runs to its end -------------------- *)

\* The state after construction with NUVION_ZSAD_BACKEND=siglip and the
\* detector enabled.
InitSiglip ==
    /\ Init
    /\ backend = "siglip"

\* The dispatcher with its threads scheduled: a thread that can take its next
\* step takes it (the request for the upload URL returns, the loop runs its
\* callbacks, the muxer and the upload end).
SpecClipWorker ==
    /\ InitSiglip
    /\ [][Next]_vars
    /\ WF_vars(WorkerRequestUploadUrl)
    /\ WF_vars(RunEnqueueCallback)
    /\ WF_vars(ClipWorkerBuild)
    /\ WF_vars(ClipWorkerUpload)
    /\ WF_vars(ClipWorkerFinally)

C24_NoClipWithoutUploadUrl ==
    /\ [](clip_workers # << >> => clip_in_progress)
    /\ [][ \A meta \in UploadUrlResults \ { "ok" } :
             ( /\ worker.pc = "request_upload_url"
               /\ StartClipUploadReturns(meta)
               /\ worker' = AfterSendStatus(worker) )
             => /\ ~clip_in_progress'
                /\ clip_workers' = clip_workers
                /\ clip_workers' = << >>
                /\ clip_files' = clip_files
                /\ \A k \in 1 .. Len(loop_callbacks') :
                      k > Len(loop_callbacks)
                          => loop_callbacks'[k].msg.clipObject = None ]_vars

\* The first DEFECT passed the gate and its alert went out without a clip
\* object: the request for the upload URL failed.
C24_Witness ==
    /\ emitted.last.status = "DEFECT"
    /\ emitted.prev.status = None
    /\ Len(clip_starts) = 1
    /\ ~clip_in_progress
    /\ clip_workers = << >>
    /\ loop_callbacks # << >>
    /\ loop_callbacks[1].msg.clipObject = None

(* --------------------------- the clip upload ---------------------------- *)

\* urlparse(url).netloc as its parts: "userinfo@host:port".
Netloc(userinfo, host, port) ==
    [ userinfo |-> userinfo, host |-> host, port |-> port ]

\* urlparse(SERVER_BASE_URL).netloc
ServerNetloc == Netloc("", ServerHost, "")

\* The netlocs of the upload URLs the server may hand out: its own, its own
\* host at another port, a host that carries the server's name as userinfo,
\* an object store, and none at all (a URL without "//").
UploadNetlocs ==
    { ServerNetloc,
      Netloc("", ServerHost, "8443"),
      Netloc(ServerHost, "mallory.example", ""),
      Netloc("", "objects.example", ""),
      Netloc("", "", "") }

\* An upload that hands the token to whatever host it is sent to.
AttachToken_Always(server_netloc, upload_netloc, token) == token # None

\* upload_file_to_url, lines 362-365: if server_host and upload_host ==
\* server_host: token = get_auth_token(); if token: add the header.
AttachToken(server_netloc, upload_netloc, token) ==
    /\ server_netloc # Netloc("", "", "")
    /\ upload_netloc = server_netloc
    /\ token # None

\* upload_file_to_url, lines 353-371: the PUT request as it is sent.
UploadFileToUrl ==
    /\ put_log' =
          put_log \cup
             { [ netloc |-> upload_url,
                 authorization |->
                     IF AttachToken(ServerNetloc, upload_url, auth_token)
                     THEN auth_token ELSE None ] }
    /\ UNCHANGED << now, backend, production_labels, rtp_remote_ip, sdp_text,
                    sdp_parsed, segments, clip_job, upload_url, process, setup,
                    app, dispatchVars, outboundVars, sessionVars, rtpVars >>

InitUpload ==
    /\ backend = "siglip"
    /\ production_labels = { }
    /\ rtp_remote_ip = ""
    /\ InitState
    /\ segments = << >>
    /\ clip_job = ClipJobIdle
    /\ upload_url \in UploadNetlocs
    /\ put_log = { }
    /\ setup = SetupNotRun

NextUpload ==
    \/ NextHttp
    \/ UploadFileToUrl

SpecUpload == InitUpload /\ [][NextUpload]_vars

\* C25: a PUT request carries the bearer token only when the host of the
\* upload URL is the host of the signaling server; sent to any other host it
\* has no Authorization header.
C25_TokenOnlyToServerHost ==
    \A put \in put_log :
        put.authorization # None => put.netloc.host = ServerNetloc.host

\* With a token stored, a PUT went to another host, and without the token.
C25_Witness ==
    /\ auth_token # None
    /\ \E put \in put_log :
          put.authorization = None /\ put.netloc.host # ServerNetloc.host
                /\ put.netloc.host # ""

(* ------------------------------ shutdown -------------------------------- *)

\* run and shutdown, lines 1078-1099, and main, lines 1102-1105: the main
\* loop quits, shutdown stops the pipeline, run and main return and the
\* interpreter exits. The inference, clip and signaling threads are daemon
\* threads (lines 674 and 1073): they are not joined and end where they are.
Shutdown ==
    /\ process = "running"
    /\ process' = "exited"
    /\ UNCHANGED << now, backend, production_labels, rtp_remote_ip, sdp_text,
                    sdp_parsed, segments, clip_job, upload_url, put_log, setup,
                    app, dispatchVars, outboundVars, sessionVars, rtpVars >>

\* The dispatcher for as long as the process lives.
NextShutdown ==
    \/ process = "running" /\ Next
    \/ Shutdown

SpecShutdown == InitSiglip /\ [][NextShutdown]_vars

\* C26: no clip worker is cut off by the end of the process: once the process
\* has exited, every clip worker that was started has made its report and
\* released the clip slot.
C26_ClipWorkerOutlivesShutdown ==
    process = "exited" => clip_workers = << >>

(* --------------------------- nuv-agent setup ---------------------------- *)

SetupFrame ==
    UNCHANGED << now, backend, production_labels, rtp_remote_ip, sdp_text,
                 sdp_parsed, segments, clip_job, upload_url, put_log, process,
                 app, dispatchVars, outboundVars, sessionVars, rtpVars >>

\* cli.main, lines 41-45: use_web from --web and --cli.
UseWebFlag(web, cli) ==
    IF cli THEN "False" ELSE IF web THEN "True" ELSE None

\* cli.main, lines 38-53, for the setup command: both flags are an error of
\* usage, otherwise setup_config is called.
CliMain ==
    /\ setup.pc = "shell"
    /\ setup' =
          IF setup.web /\ setup.cli
          THEN [ setup EXCEPT !.pc = "done", !.ran = "usage_error" ]
          ELSE [ setup EXCEPT !.pc = "setup_config",
                              !.use_web = UseWebFlag(setup.web, setup.cli) ]
    /\ SetupFrame

\* setup_config, lines 814-836, called without qr: which of run_web_setup,
\* run_qr_setup and prompt_cli does the configuring. has_display is what
\* _has_display() returns.
SetupPath(use_web, has_display) ==
    LET web == IF use_web = None THEN has_display ELSE use_web = "True"
    IN  IF web THEN "run_web_setup"
        ELSE IF ~has_display THEN "run_qr_setup"
        ELSE "prompt_cli"

\* setup_config, lines 803-838.
SetupConfig ==
    /\ setup.pc = "setup_config"
    /\ setup' = [ setup EXCEPT !.pc = "done",
                               !.ran = SetupPath(setup.use_web, setup.display) ]
    /\ SetupFrame

\* The command lines "nuv-agent setup [--web] [--cli] [--advanced]
\* [--no-open] [--host H]" on a machine with or without a display.
InitSetup ==
    /\ backend = "none"
    /\ production_labels = { }
    /\ rtp_remote_ip = ""
    /\ InitState
    /\ segments = << >>
    /\ clip_job = ClipJobIdle
    /\ upload_url = ""
    /\ put_log = { }
    /\ setup \in [ pc : { "shell" }, web : BOOLEAN, cli : BOOLEAN,
                   advanced : BOOLEAN, no_open : BOOLEAN,
                   host : { "127.0.0.1", "0.0.0.0" }, display : BOOLEAN,
                   use_web : { None }, ran : { None } ]

NextSetup ==
    \/ CliMain
    \/ SetupConfig

SpecSetup == InitSetup /\ [][NextSetup]_vars

\* C27: "setup --cli" configures through prompt_cli, never through the web
\* setup or the QR pairing, with or without a display; "setup --web"
\* configures through the web setup.
C27_SetupFlagsDecide ==
    setup.pc = "done"
        => /\ (setup.cli /\ ~setup.web) => setup.ran = "prompt_cli"
           /\ (setup.web /\ ~setup.cli) => setup.ran = "run_web_setup"

(* ------------------- what the dispatcher remembers ---------------------- *)

\* C28: zero_shot_last_sample moves only in a step that puts the offered
\* frame into the frame channel; an offer turned away by a full channel
\* leaves it as it was.
C28_SampleStampOnlyWhenPlaced ==
    [][ zero_shot_last_sample' # zero_shot_last_sample
          => Len(zero_shot_queue') = Len(zero_shot_queue) + 1 ]_vars

\* The alerts handed over and not yet written: the queue, then the
\* callbacks the loop has still to run.
AlertsOnTheWay ==
    outbound_queue \o
        [ k \in 1 .. Len(loop_callbacks) |-> loop_callbacks[k].msg ]

\* C29: last_sent_status is the status of an alert that was placed in the
\* outbound queue: with no sender draining the queue, the newest alert on its
\* way carries that status; a dropped alert leaves the field as it was.
C29_SentFieldsMeanQueued ==
    last_sent_status # None
        => /\ AlertsOnTheWay # << >>
           /\ AlertsOnTheWay[Len(AlertsOnTheWay)].anomalyStatus = last_sent_status

\* C30: once a DEFECT has been emitted, a result whose status differs from
\* last_sent_status is emitted whatever the time since the last alert, a
\* NORMAL equal to last_sent_status is not emitted, and no two NORMAL alerts
\* follow one another in what is emitted.
C30_ChangesEmittedAtOnce ==
    /\ emitted.defect_seen
          => \A status \in { "NORMAL", "DEFECT" } :
                /\ status # last_sent_status => ShouldEmit(status, now)
                /\ (status = "NORMAL" /\ status = last_sent_status)
                      => ~ShouldEmit(status, now)
    /\ ~(emitted.prev.status = "NORMAL" /\ emitted.last.status = "NORMAL")

\* A NORMAL was emitted after a DEFECT sooner than the interval allows a
\* repeat, and a further NORMAL result is now with send_status.
C30_Witness ==
    /\ emitted.prev.status = "DEFECT"
    /\ emitted.last.status = "NORMAL"
    /\ emitted.last.at - emitted.prev.at < ANOMALY_MIN_INTERVAL_SEC
    /\ worker.pc = "send_status"
    /\ worker.status = "NORMAL"

(* ------------------------- alerts and their clips ----------------------- *)

\* C31: the clip trigger runs only for a DEFECT that is a change of status;
\* an alert carries clipStatus UPLOADING exactly when it carries a clip
\* object, and an alert send_status enqueues without the clip trigger (a
\* NORMAL, a repeated DEFECT) carries neither.
C31_ClipFieldsGoTogether ==
    /\ [] ( /\ worker.pc \in { "start_clip_upload", "request_upload_url" }
                => worker.status = "DEFECT" /\ worker.changed
            /\ outbound_queue # None
                => \A k \in 1 .. Len(AlertsOnTheWay) :
                      LET msg == AlertsOnTheWay[k] IN
                      /\ msg.clipStatus = "UPLOADING" <=> msg.clipObject # None
                      /\ msg.clipStatus \in { "UPLOADING", None }
                      /\ msg.anomalyStatus = "NORMAL" => msg.clipObject = None )
    /\ [][ ( /\ worker.pc = "send_status"
             /\ Len(loop_callbacks') > Len(loop_callbacks) )
           => LET msg == loop_callbacks'[Len(loop_callbacks')].msg IN
              /\ msg.clipObject = None
              /\ msg.clipStatus = None
              /\ msg.anomalyStatus = "NORMAL" \/ ~StatusChanged(msg.anomalyStatus) ]_vars

\* A DEFECT alert with its clip is queued, a DEFECT repeated after the
\* interval went out without one, and a NORMAL follows.
C31_Witness ==
    /\ signaling_loop # None
    /\ Len(outbound_queue) = 2
    /\ outbound_queue[1].anomalyStatus = "DEFECT"
    /\ outbound_queue[1].clipObject # None
    /\ outbound_queue[1].clipStatus = "UPLOADING"
    /\ outbound_queue[2].anomalyStatus = "DEFECT"
    /\ outbound_queue[2].clipObject = None
    /\ loop_callbacks # << >>
    /\ loop_callbacks[1].msg.anomalyStatus = "NORMAL"

\* C32: a clip worker is alive only when a DEFECT alert has been emitted (the
\* alert that names its clip): no clip is started for a DEFECT whose alert
\* is then not enqueued.
C32_ClipHasItsAlert ==
    clip_workers # << >> => emitted.defect_seen

(* ----------------------- broadcast/start per command -------------------- *)

NextBroadcast ==
    \/ NextOutbound
    \/ (cmd_log = { } /\ SigRecvCommand)

SpecBroadcast == InitOutbound /\ [][NextBroadcast]_vars

\* C34: a /app/broadcast/start that is written while alerts wait in the
\* outbound queue is written by the outbound sender, which took it from
\* the queue ahead of them.
C34_StartWrittenBySender ==
    [][ (last_broadcast' # last_broadcast /\ outbound_queue # << >>)
           => /\ SenderAlive
              /\ sender_msg # << >>
              /\ sender_msg[1].destination = "/app/broadcast/start" ]_vars

(* ------------------------ commands that are acted on -------------------- *)

\* C35: a command that was applied to the sink gave its ip, its port and
\* its payload type, each in the command itself or else in the c=, m=video
\* or H264 a=rtpmap (or m=video) line of its sdp.
C35_ActedOnlyWhenAvailable ==
    \A i \in 1 .. Len(handler_log.configured) :
        LET adv == handler_log.configured[i] IN
        /\ adv.ip # None \/ FirstLine(adv.sdp, "c=", FALSE) # 0
        /\ adv.port # None \/ FirstLine(adv.sdp, "m=video", FALSE) # 0
        /\ \/ adv.payloadType # None
           \/ FirstLine(adv.sdp, "a=rtpmap:", TRUE) # 0
           \/ FirstLine(adv.sdp, "m=video", FALSE) # 0

(* ------------------------- terminal clip report ------------------------- *)

\* C36: a clip worker that has reached the end of its work has reported
\* READY or FAILED for its clip, READY only with an assembled clip.
C36_TerminalReportSent ==
    \A i \in 1 .. Len(clip_workers) :
        clip_workers[i].pc = "finally"
            => /\ clip_workers[i].report \in { "READY", "FAILED" }
               /\ clip_workers[i].report = "READY"
                     => clip_workers[i].clip_path # None

(* --------------------------- classifier failure ------------------------- *)

\* C37: a classifier call that fails or gives no result takes the worker
\* straight back to the head of its loop, ready for the next frame, with
\* the debounce state, the production stamp, the clip trigger, the alert
\* history and the outbound side as they were; send_status is only ever
\* entered with a status.
C37_NoResultNoEmission ==
    /\ [] (worker.pc \in { "send_status", "start_clip_upload",
                           "request_upload_url" }
              => worker.status \in { "DEFECT", "NORMAL" })
    /\ [][ worker.pc = "classify"
              => /\ worker'.pc \in { "classify", "get", "send_status" }
                 /\ worker'.pc = "get"
                       => /\ worker' = WorkerIdle
                          /\ UNCHANGED << last_status, last_sent_status,
                                          last_sent_at, last_production_at,
                                          emitted, clip_in_progress,
                                          clip_last_started, clip_workers,
                                          clip_starts, outboundVars >> ]_vars

\* A frame was sampled, taken and classified, send_status has never been
\* called, and the worker is back at the head of its loop.
C37_Witness ==
    /\ backend = "triton"
    /\ zero_shot_last_sample > 0
    /\ zero_shot_queue = << >>
    /\ worker = WorkerIdle
    /\ classifying = 0
    /\ last_status = None

(* ------------------------- the running flag ----------------------------- *)

\* A shutdown that leaves the flag of the worker as it is.
shutdown_FlagKept(a) ==
    [ a EXCEPT !.state = "NULL",
               !.loop = IF @ = "running" THEN "quit" ELSE @,
               !.shutdowns = @ + 1 ]

\* GStreamerInferenceApp.shutdown, lines 1094-1099: the flag is cleared,
\* the pipeline goes to NULL, and the main loop is told to quit if it runs.
shutdown(a) ==
    [ a EXCEPT !.running = FALSE,
               !.state = "NULL",
               !.loop = IF @ = "running" THEN "quit" ELSE @,
               !.shutdowns = @ + 1 ]

AppFrame ==
    UNCHANGED << now, backend, production_labels, rtp_remote_ip, sdp_text,
                 sdp_parsed, segments, clip_job, upload_url, put_log, process,
                 setup, outboundVars, sessionVars, rtpVars >>

\* bus_call, lines 1027-1036, called by the main loop while it runs: EOS
\* and ERROR call shutdown, any other message is passed over.
BusCall ==
    /\ app.loop = "running"
    /\ \E message \in { "EOS", "ERROR" } : app' = shutdown(app)
    /\ UNCHANGED dispatchVars
    /\ AppFrame

\* run, lines 1079-1084: loop.run() returns, after quit or with a
\* KeyboardInterrupt, and the finally clause calls shutdown.
RunReturns ==
    /\ app.loop \in { "running", "quit" }
    /\ app' = [ shutdown(app) EXCEPT !.loop = "returned" ]
    /\ UNCHANGED dispatchVars
    /\ AppFrame

\* _zsad_worker, line 798: the worker is at the head of its loop (the get of
\* line 800 has timed out if it was waiting there) and finds running false.
WorkerExit ==
    /\ worker.pc = "get"
    /\ ~app.running
    /\ worker' = [ WorkerIdle EXCEPT !.pc = "exited" ]
    /\ UNCHANGED << zero_shot_queue, zero_shot_last_sample, classifying,
                    last_status, last_sent_status, last_sent_at,
                    last_production_at, clip_in_progress, clip_last_started,
                    clip_workers, emitted, clip_starts, clip_files, app >>
    /\ AppFrame

\* The frame tap, the inference worker and the signaling loop it hands its
\* alerts to, with the main loop, the bus and the end of run.
NextRunning ==
    \/ Tick
    \/ SigInit
    \/ RunEnqueueCallback
    \/ MaybeEnqueueFrame
    \/ WorkerGet
    \/ WorkerClassified
    \/ WorkerSendStatus
    \/ WorkerStartClipUpload
    \/ WorkerRequestUploadUrl
    \/ BusCall
    \/ RunReturns
    \/ WorkerExit

\* The threads are scheduled: a classifier call, a request for the upload
\* URL and a callback on the signaling loop come to their end, and the
\* worker at the head of its loop tests the flag.
SpecRunning ==
    /\ InitSiglip
    /\ [][NextRunning]_vars
    /\ WF_vars(WorkerClassified)
    /\ WF_vars(WorkerSendStatus)
    /\ WF_vars(WorkerStartClipUpload)
    /\ WF_vars(WorkerRequestUploadUrl)
    /\ WF_vars(RunEnqueueCallback)
    /\ WF_vars(WorkerExit)

C39_PropertiesSetOnMainLoop ==
    handler_log.set_on \in { None, "main loop" }

(* ------------------------- one sender at a time ------------------------- *)

\* C40: a sender task is live only inside the session that created it: it
\* is cancelled when the session ends, a new one is created only when none
\* is live, and every item taken from the outbound queue or written to the
\* socket is taken or written by the sender of the session that is up.
C40_OneSenderPerSession ==
    /\ [] (sender_task = "running" => sig_pc = "session" /\ websocket = "ws")
    /\ [] (sender_msg # << >> => sender_task = "running")
    /\ [][ /\ (sender_task' = "running" /\ sig_pc # "session")
              => sender_task \in { None, "cancelled" } /\ sender_msg = << >>
           /\ (sender_msg' # sender_msg \/ wire_log'.written # wire_log.written)
              => /\ sender_task = "running"
                 /\ sig_pc = "session"
                 /\ websocket = "ws" ]_vars

\* The sender of a later session holds an item it took from the queue,
\* after the sender of an earlier session wrote one and was cancelled.
C40_Witness ==
    /\ sender_task = "running"
    /\ sender_msg # << >>
    /\ wire_log.written # << >>
    /\ wire_log.session = << >>

====
